---------------------------- MODULE Spec2Model ----------------------------
(***************************************************************************)
(* Model of dnsr: an authoritative DNS server for _acme-challenge zones    *)
(* with TSIG-authenticated RFC 2136 updates and a config-file reconciler.  *)
(*                                                                         *)
(* Names are sequences of labels; a DomainName of the config is a name     *)
(* without the _acme-challenge label, a zone apex is the name with it.     *)
(* Maps whose key set varies (Keys, KeyStore, ZoneTree, key directory) are *)
(* total functions onto a value or an explicit "absent" marker.            *)
(***************************************************************************)
EXTENDS Integers, Sequences, FiniteSets, TLC

VARIABLES
    config,     \* Dnsr.config.keys: the Keys parsed at process start
    zones,      \* Dnsr.zones: the ZoneTree, apex -> Zone
    keystore,   \* Dnsr.keystore: KeyFile -> secret held in memory
    files,      \* key directory TSIG_PATH: KeyFile -> file content
    keys,       \* watch_lock's local `keys`: the Keys last reconciled
    wpc,        \* where the watcher task is: init, idle, busy, exit
    work,       \* operations the running reconcile still has to perform
    loaded,     \* handle_file_change's `loaded_keys` while a reconcile runs
    last,       \* the last request handled and what was answered
    vz,         \* one zone at the grain of its versioned storage
    writer,     \* an UPDATE between open() and commit()
    reader      \* a zone read between read() and its last lookup

vars == <<config, zones, keystore, files, keys, wpc, work, loaded, last,
          vz, writer, reader>>

\* What the request-level and watcher actions leave alone.
conc == <<vz, writer, reader>>

----------------------------------------------------------------------------
(* Bounds of the model *)

MaxRdata == 2       \* TXT rdata values the zones may hold before adds are cut off
MaxCommits == 2     \* versions an UPDATE may commit to the versioned zone

----------------------------------------------------------------------------
(* Program constants *)

SoaTtl == 3600      \* Ttl::HOUR of the seeded SOA record

----------------------------------------------------------------------------
(* Universe of values *)

AcmeLabel == "_acme-challenge"

KeyFiles == {"k1", "k2"}
DomA == <<"a", "com">>
DomB == <<"b", "com">>
Domains == {DomA, DomB}
Infos == {"i1", "i2"}

NoZone == [absent |-> "zone"]
NoRrset == [absent |-> "rrset"]
NoKey == <<-1>>
NoFile == <<-1>>
NoDomain == <<>>
NoKeys == [ks |-> {}, ds |-> {}]

\* Keys (key.rs:20): HashMap<KeyFile, HashMap<DomainName, DomainInfo>>, held as
\* the key set ks and the set ds of <<KeyFile, DomainName, DomainInfo>> entries.
MkKeys(ks, ds) == [ks |-> ks, ds |-> ds]

Configs ==
    { MkKeys({"k1", "k2"}, {<<"k1", DomA, "i1">>, <<"k2", DomB, "i1">>}),
      MkKeys({"k1"},       {<<"k1", DomA, "i1">>, <<"k1", DomB, "i1">>}),
      MkKeys({"k1", "k2"}, {<<"k1", DomA, "i1">>}),
      MkKeys({"k1", "k2"}, {<<"k1", DomA, "i1">>, <<"k2", DomA, "i2">>}),
      MkKeys({"k1"},       {<<"k1", DomA, "i2">>}),
      MkKeys({"k2"},       {<<"k2", DomA, "i1">>}),
      NoKeys }

\* Secrets the random generator may return (tsig.rs:40-44), as byte strings.
Secrets == { <<171>> }

Range(s) == { s[n] : n \in DOMAIN s }

----------------------------------------------------------------------------
(* Names *)

\* TryInto<StoredName> for &DomainName (key.rs:116-124): prepend the label.
Apex(d) == <<AcmeLabel>> \o d

ApexNames == { Apex(d) : d \in Domains }

\* DomainName::strip_prefix (key.rs:56-62) on the dotted text of a name: the
\* text starts with "_acme-challenge." iff the first label is _acme-challenge
\* and another label follows it.
strip_prefix(n) ==
    IF Len(n) >= 2 /\ n[1] = AcmeLabel THEN Tail(n) ELSE n

----------------------------------------------------------------------------
(* Key material (tsig.rs) *)

HexDigit(v) == IF v < 10 THEN 48 + v ELSE 87 + v

\* base16ct::lower::encode (tsig.rs:46-48): two ASCII hex digits per byte.
RECURSIVE HexEncode(_)
HexEncode(bytes) ==
    IF bytes = <<>> THEN <<>>
    ELSE <<HexDigit(Head(bytes) \div 16), HexDigit(Head(bytes) % 16)>>
            \o HexEncode(Tail(bytes))

\* load_tsig (tsig.rs:62-84): the key is built from the bytes read, as they are.
load_tsig(content) == content

\* KeyStore::add_key (key.rs:210-221) with generate_new_tsig (tsig.rs:25-60):
\* a missing file is created holding the hex text of a fresh secret `s` and the
\* key holds `s`; an existing file is loaded instead.
add_key(ks, fs, k, s) ==
    IF fs[k] = NoFile
    THEN [keystore |-> [ks EXCEPT ![k] = s],
          files    |-> [fs EXCEPT ![k] = HexEncode(s)]]
    ELSE [keystore |-> [ks EXCEPT ![k] = load_tsig(fs[k])],
          files    |-> fs]

\* KeyStore::remove_key (key.rs:203-208) with delete_tsig (tsig.rs:12-23):
\* the file goes only when the key was in the store.
remove_key(ks, fs, k) ==
    IF ks[k] # NoKey
    THEN [keystore |-> [ks EXCEPT ![k] = NoKey],
          files    |-> [fs EXCEPT ![k] = NoFile]]
    ELSE [keystore |-> ks, files |-> fs]

----------------------------------------------------------------------------
(* Zones and the ZoneTree (key.rs, zone.rs, service/mod.rs) *)

Rrset(ttl, data) == [ttl |-> ttl, data |-> data]

\* TryInto<Zone> for (&DomainName, &DomainInfo) (key.rs:75-114): a zone whose
\* only RRset is the SOA built from the DomainInfo, at the apex.
NewZone(i) == [SOA |-> Rrset(SoaTtl, <<i>>), TXT |-> NoRrset]

\* ZoneTree::find_zone (zone.rs:23-28): HashMap::get on the exact name.
find_zone(zs, qname) ==
    IF qname \in DOMAIN zs THEN zs[qname] ELSE NoZone

\* Zones::has_zone (service/mod.rs:316-326)
has_zone(zs, n) == find_zone(zs, n) # NoZone

\* ZoneTree::insert_zone (zone.rs:30-35): HashMap::insert puts the zone under
\* its apex, replacing the value that was there, and the value it replaced
\* decides the result: None is Ok, Some is Err(ZoneExists).
ZoneTree_insert_zone(zs, apex, zone) ==
    [zones |-> [zs EXCEPT ![apex] = zone],
     res   |-> IF zs[apex] = NoZone THEN "Ok" ELSE "ZoneExists"]

\* Zones::insert_zone (service/mod.rs:328-337): an existing apex is kept and
\* Ok returned; otherwise ZoneTree::insert_zone (zone.rs:30-35) stores the zone.
insert_zone(zs, d, i) ==
    IF has_zone(zs, Apex(d)) THEN zs
    ELSE ZoneTree_insert_zone(zs, Apex(d), NewZone(i)).zones

\* Zones::remove_zone (service/mod.rs:339-358) over ZoneTree::remove_zone
\* (zone.rs:37-47): Err(ZoneDoesNotExist) when the apex is not in the map.
remove_zone_ok(zs, d) == has_zone(zs, Apex(d))
remove_zone(zs, d) == [zs EXCEPT ![Apex(d)] = NoZone]

----------------------------------------------------------------------------
(* Reconciler (service/watcher.rs) *)

Op(op, k, d, i) == [d |-> d, k |-> k, i |-> i, op |-> op]

\* Orders in which a Keys map can be iterated: entries of one KeyFile are
\* contiguous (outer HashMap, then inner HashMap), any order otherwise.
Grouped(p) ==
    \A a, b, c \in DOMAIN p : (a < b /\ b < c /\ p[a][1] = p[c][1]) => p[b][1] = p[a][1]

IterOrders(ks) ==
    { p \in [1..Cardinality(ks.ds) -> ks.ds] :
        /\ \A a, b \in DOMAIN p : a # b => p[a] # p[b]
        /\ Grouped(p) }

KeyOrders(S) ==
    { p \in [1..Cardinality(S) -> S] : \A a, b \in DOMAIN p : a # b => p[a] # p[b] }

\* Keys::domains (key.rs:27-35): the flattened (DomainName, DomainInfo) list.
domains(p) == [n \in DOMAIN p |-> <<p[n][2], p[n][3]>>]

RECURSIVE Concat(_)
Concat(ss) == IF ss = <<>> THEN <<>> ELSE Head(ss) \o Concat(Tail(ss))

\* initialize_dns_zones (service/watcher.rs:38-63): per entry of the config,
\* add the key, then insert the zone. A KeyFile without domains adds nothing.
initialize_ops(p) ==
    Concat([n \in DOMAIN p |->
        << Op("add_key", p[n][1], NoDomain, "-"),
           Op("insert_zone", "-", p[n][2], p[n][3]) >>])

\* handle_keys_change (service/watcher.rs:87-110)
keys_change_ops(oldk, newk) ==
    LET deleted == SelectSeq(oldk, LAMBDA k : k \notin Range(newk))
        added   == SelectSeq(newk, LAMBDA k : k \notin Range(oldk))
    IN  [n \in DOMAIN deleted |-> Op("remove_key", deleted[n], NoDomain, "-")]
        \o [n \in DOMAIN added |-> Op("add_key", added[n], NoDomain, "-")]

\* A reconcile of the domains that forgets the added ones.
domains_change_ops_NoAdded(oldd, newd) ==
    LET deleted == SelectSeq(oldd, LAMBDA e : e \notin Range(newd))
    IN  [n \in DOMAIN deleted |-> Op("remove_zone", "-", deleted[n][1], deleted[n][2])]

\* handle_domains_change (service/watcher.rs:112-143): deleted and added are
\* compared on (name, info); modified is every new entry whose name was known.
domains_change_ops(oldd, newd) ==
    LET deleted  == SelectSeq(oldd, LAMBDA e : e \notin Range(newd))
        added    == SelectSeq(newd, LAMBDA e : e \notin Range(oldd))
        modified == SelectSeq(newd, LAMBDA e : \E o \in Range(oldd) : o[1] = e[1])
    IN  [n \in DOMAIN deleted |-> Op("remove_zone", "-", deleted[n][1], deleted[n][2])]
        \o [n \in DOMAIN added |-> Op("insert_zone", "-", added[n][1], added[n][2])]
        \o Concat([n \in DOMAIN modified |->
              << Op("remove_zone", "-", modified[n][1], modified[n][2]),
                 Op("insert_zone", "-", modified[n][1], modified[n][2]) >>])

\* handle_file_change (service/watcher.rs:65-85) after a successful parse.
file_change_ops(oldk, newk, oldp, newp) ==
    keys_change_ops(oldk, newk) \o domains_change_ops(domains(oldp), domains(newp))


----------------------------------------------------------------------------
(* Requests and responses *)

StoredTypes == {"SOA", "TXT"}
Rdatas == {"r1", "r2"}
Ttls == {60, 120}

NoTsig == [kind |-> "none", key |-> "-"]
Tsig(kind, k) == [kind |-> kind, key |-> k]

\* A record of the UPDATE section (the authority section of the message).
Rec(class, rtype, ttl, rdata) ==
    [ttl |-> ttl, class |-> class, rtype |-> rtype, rdata |-> rdata]

\* A request as the handlers read it; its header has ID 0 and RD clear unless
\* WithHeader says otherwise.
Request(opcode, qname, qtype, qclass, transport, tsig, authority) ==
    [qname |-> qname, opcode |-> opcode, qtype |-> qtype, qclass |-> qclass,
     transport |-> transport, tsig |-> tsig, authority |-> authority,
     id |-> 0, rd |-> FALSE]

\* The same request with the ID and the RD bit the client chose.
WithHeader(req, id, rd) == [req EXCEPT !.id = id, !.rd = rd]

\* The header of a fresh builder (mk_builder_for_target, service/mod.rs:222):
\* every field zero.
NewHeader ==
    [opcode |-> "QUERY", id |-> 0, rd |-> FALSE, qr |-> FALSE, aa |-> FALSE,
     tc |-> FALSE, ra |-> FALSE, z |-> FALSE, ad |-> FALSE, cd |-> FALSE]

\* MessageBuilder::start_answer (service/mod.rs:194, and inside
\* Answer::to_message): ID, opcode and RD come from the request, QR is set.
start_answer(req) ==
    [NewHeader EXCEPT !.id = req.id, !.qr = TRUE, !.opcode = req.opcode,
                      !.rd = req.rd]

\* set_axfr_header (service/mod.rs:236-271).
set_axfr_header(req, header) ==
    [header EXCEPT !.id = req.id, !.qr = TRUE, !.opcode = "QUERY", !.aa = TRUE,
                   !.tc = FALSE, !.rd = req.rd, !.ra = FALSE, !.z = FALSE,
                   !.ad = FALSE, !.cd = FALSE]

\* A response message: rcode, answer section, whether it carries a TSIG, and
\* its header; an Answer not yet built into a message has the fresh header.
Msg(rcode, answer, signed) ==
    [rcode |-> rcode, answer |-> answer, signed |-> signed, hdr |-> NewHeader]

\* Answer::new(rcode): a bare-rcode answer.
Bare(rcode) == Msg(rcode, <<>>, FALSE)

\* Answer::to_message(request.message(), builder) (service/mod.rs:93-94).
to_message(req, answer) == [answer EXCEPT !.hdr = start_answer(req)]

\* add_additional_to_stream (service/mod.rs:226-234).
add_additional_to_stream(req, additional) ==
    [additional EXCEPT !.hdr = set_axfr_header(req, @)]

\* add_to_stream (service/mod.rs:216-224).
add_to_stream(req, answer) == add_additional_to_stream(req, to_message(req, answer))

RR(rtype, ttl, rdata) == [ttl |-> ttl, rtype |-> rtype, rdata |-> rdata]

\* The (owner, ttl, rdata) tuples of one RRset, in stored order.
Records(rtype, rrset) ==
    [n \in DOMAIN rrset.data |-> RR(rtype, rrset.ttl, rrset.data[n])]

\* ReadableZone::query at the apex, as handle_non_axfr uses it
\* (service/mod.rs:84-88): the RRset of the type asked, or an empty answer.
query(z, qtype) ==
    IF qtype \in StoredTypes /\ z[qtype] # NoRrset
    THEN Msg("NOERROR", Records(qtype, z[qtype]), FALSE)
    ELSE Bare("NOERROR")

\* An inner service that has an empty NOERROR answer for a name without zone.
handle_non_axfr_NoData(zs, req) ==
    LET z == find_zone(zs, req.qname)
    IN  to_message(req, IF z = NoZone THEN Bare("NOERROR") ELSE query(z, req.qtype))

\* Dnsr::handle_non_axfr (service/mod.rs:79-97): the class of the question is
\* not looked at; a name without zone is NXDOMAIN.
handle_non_axfr(zs, req) ==
    LET z == find_zone(zs, req.qname)
    IN  to_message(req, IF z = NoZone THEN Bare("NXDOMAIN") ELSE query(z, req.qtype))

\* A walk that sends one message per record instead of one per RRset.
axfr_walk_PerRecord(z) ==
    IF z["TXT"] # NoRrset
    THEN [n \in DOMAIN z["TXT"].data |->
            Msg("NOERROR", << RR("TXT", z["TXT"].ttl, z["TXT"].data[n]) >>, FALSE)]
    ELSE <<>>

\* The walk closure of handle_axfr (service/mod.rs:191-204): one message per
\* RRset that is not the SOA.
axfr_walk(z) ==
    IF z["TXT"] # NoRrset
    THEN << Msg("NOERROR", Records("TXT", z["TXT"]), FALSE) >>
    ELSE <<>>

\* Dnsr::handle_axfr (service/mod.rs:99-213): a question of class IN is
\* answered NXDOMAIN (line 117 tests `== Class::IN`); otherwise the zone is
\* streamed as SOA, walk, SOA.  Every frame goes out through
\* add_additional_to_stream.
handle_axfr(zs, req) ==
    LET z == find_zone(zs, req.qname)
        frames ==
            IF req.qclass = "IN" THEN << Bare("NXDOMAIN") >>
            ELSE IF z = NoZone THEN << Bare("NXDOMAIN") >>
            ELSE << query(z, "SOA") >> \o axfr_walk(z) \o << query(z, "SOA") >>
    IN  [n \in DOMAIN frames |-> add_to_stream(req, frames[n])]

\* Service::call for Dnsr (service/mod.rs:51-75): the stream of the inner
\* service; the transport is not looked at.
call(zs, req) ==
    IF req.qtype # "AXFR" THEN << handle_non_axfr(zs, req) >> ELSE handle_axfr(zs, req)

----------------------------------------------------------------------------
(* TSIG middleware (service/middleware/rfc2136.rs) *)

\* ServerTransaction::request / ServerSequence::request on the KeyStore
\* (rfc2136.rs:61, 107): no TSIG, a verified key, or the error found first.
verify(ks, tsig) ==
    IF tsig.kind = "none" THEN "none"
    ELSE IF tsig.key \notin DOMAIN ks \/ ks[tsig.key] = NoKey THEN "badkey"
    ELSE IF tsig.kind = "badsig" THEN "badsig"
    ELSE IF tsig.kind = "badtime" THEN "badtime"
    ELSE "ok"

\* A scope test that forgets whose key signed the request.
validate_key_scope_AnyKey(ks, key, qname) ==
    \E e \in ks.ds : e[2] = strip_prefix(qname)

\* validate_key_scope (rfc2136.rs:213-220) on Dnsr.config.keys.
validate_key_scope(ks, key, qname) ==
    \E e \in ks.ds : e[1] = key /\ e[2] = strip_prefix(qname)

\* The walk closure of handle_update_query (rfc2136.rs:239-251): every RRset of
\* the zone found for the qname, keyed by (rtype, ttl).
walk_records(z) ==
    IF z = NoZone THEN <<>>
    ELSE LET present == { rt \in StoredTypes : z[rt] # NoRrset }
         IN  [e \in { <<rt, z[rt].ttl>> : rt \in present } |-> z[e[1]].data]

RECURSIVE RemoveFirst(_, _)
\* entry.iter().position(..) then entry.remove(index) (rfc2136.rs:279-281)
RemoveFirst(s, x) ==
    IF s = <<>> THEN <<>>
    ELSE IF Head(s) = x THEN Tail(s)
    ELSE <<Head(s)>> \o RemoveFirst(Tail(s), x)

\* A delete that takes the TTL of the record as part of its key.
apply_record_TtlKeyed(records, a) ==
    IF a.class = "IN"
    THEN LET e == <<a.rtype, a.ttl>>
         IN  IF e \in DOMAIN records
             THEN [records EXCEPT ![e] = Append(@, a.rdata)]
             ELSE [x \in DOMAIN records \cup {e} |->
                     IF x = e THEN <<a.rdata>> ELSE records[x]]
    ELSE [x \in DOMAIN records |->
            IF x = <<a.rtype, a.ttl>> THEN RemoveFirst(records[x], a.rdata)
            ELSE records[x]]

\* One record of the authority section applied to the working map
\* (rfc2136.rs:267-286): class IN appends under (rtype, ttl), class NONE removes
\* the first equal rdata from every entry of the rtype.
apply_record(records, a) ==
    IF a.class = "IN"
    THEN LET e == <<a.rtype, a.ttl>>
         IN  IF e \in DOMAIN records
             THEN [records EXCEPT ![e] = Append(@, a.rdata)]
             ELSE [x \in DOMAIN records \cup {e} |->
                     IF x = e THEN <<a.rdata>> ELSE records[x]]
    ELSE [x \in DOMAIN records |->
            IF x[1] = a.rtype THEN RemoveFirst(records[x], a.rdata) ELSE records[x]]

\* rdata that is not TXT hits unimplemented!() (rfc2136.rs:264), a class other
\* than IN and NONE hits unreachable!() (rfc2136.rs:285): the task panics.
record_panics(a) == a.rtype # "TXT" \/ a.class \notin {"IN", "NONE"}

\* Rdata whose bytes do not parse as the record's type: the message carries it
\* (and its TSIG covers it), to_record fails on it.
Unparsable == "unparsable"

\* `a?.to_record::<AllRecordData<..>>()?` (rfc2136.rs:259) returns the parse
\* error out of handle_update_query.
record_fails(a) == a.rdata = Unparsable

RECURSIVE apply_authority(_, _)
\* The loop over the authority section (rfc2136.rs:258-288): it ends at the
\* first record that does not parse (Err) or that panics.
apply_authority(records, auth) ==
    IF auth = <<>> THEN [records |-> records, panic |-> FALSE, err |-> FALSE]
    ELSE IF record_fails(Head(auth))
    THEN [records |-> records, panic |-> FALSE, err |-> TRUE]
    ELSE IF record_panics(Head(auth))
    THEN [records |-> records, panic |-> TRUE, err |-> FALSE]
    ELSE apply_authority(apply_record(records, Head(auth)), Tail(auth))

\* A commit that leaves in the zone only what the TXT entries hold.
commit_TxtOnly(z, records) ==
    LET es == { e \in DOMAIN records : e[1] = "TXT" }
    IN  IF es = {} THEN { [SOA |-> NoRrset, TXT |-> z["TXT"]] }
        ELSE { [SOA |-> NoRrset, TXT |-> Rrset(e[2], records[e])] : e \in es }

\* A commit that gives the SOA the TTL of the TXT entry it writes.
commit_Retimed(z, records) ==
    LET es == { e \in DOMAIN records : e[1] = "TXT" }
    IN  IF es = {} THEN { z }
        ELSE { [SOA |-> Rrset(e[2], z["SOA"].data), TXT |-> Rrset(e[2], records[e])] :
                 e \in es }

\* The commit (rfc2136.rs:291-304): one update_rrset per entry of the working
\* map, in the map's iteration order, so that of the entries of one rtype the
\* one iterated last is the RRset the zone ends with.
commit(z, records) ==
    LET choice(rt) ==
            LET es == { e \in DOMAIN records : e[1] = rt }
            IN  IF es = {} THEN { z[rt] }
                ELSE { Rrset(e[2], records[e]) : e \in es }
    IN  { [SOA |-> s, TXT |-> t] : s \in choice("SOA"), t \in choice("TXT") }

\* handle_update_query (rfc2136.rs:222-308): the outcomes [panic, zones, err],
\* err being the Err result.
handle_update_query(zs, req) ==
    IF req.authority = <<>> THEN { [zones |-> zs, panic |-> FALSE, err |-> FALSE] }
    ELSE LET z == find_zone(zs, req.qname)
             r == apply_authority(walk_records(z), req.authority)
         IN  IF r.err THEN { [zones |-> zs, panic |-> FALSE, err |-> TRUE] }
             ELSE IF r.panic THEN { [zones |-> zs, panic |-> TRUE, err |-> FALSE] }
             ELSE IF z = NoZone THEN { [zones |-> zs, panic |-> FALSE, err |-> FALSE] }
             ELSE { [zones |-> [zs EXCEPT ![req.qname] = nz], panic |-> FALSE,
                     err |-> FALSE] : nz \in commit(z, r.records) }

\* A post-processing that applies the authority section without looking at
\* the TSIG.
postprocess_NoVerify(zs, ks, cfg, req, msg) ==
    { [zones |-> u.zones, panic |-> u.panic,
       msg |-> IF u.err THEN to_message(req, Bare("SERVFAIL")) ELSE msg] :
          u \in handle_update_query(zs, req) }

\* postprocess_non_axfr / postprocess_axfr (rfc2136.rs:49-138) on one message
\* of the stream: the outcomes [panic, zones, msg].
postprocess(zs, ks, cfg, req, msg) ==
    LET v == verify(ks, req.tsig)
    IN  IF v = "none" THEN { [zones |-> zs, panic |-> FALSE, msg |-> msg] }
        ELSE IF v = "ok" /\ validate_key_scope(cfg, req.tsig.key, req.qname)
        THEN { [zones |-> u.zones, panic |-> u.panic,
                msg |-> IF u.err THEN to_message(req, Bare("SERVFAIL"))
                        ELSE [msg EXCEPT !.signed = TRUE]] :
                    u \in handle_update_query(zs, req) }
        ELSE { [zones |-> zs, panic |-> FALSE,
                msg |-> to_message(req, Bare("REFUSED"))] }

RECURSIVE map_stream(_, _, _, _, _, _)
\* PostprocessingStream over map_stream_item (rfc2136.rs:167-211): every
\* message of the inner stream is post-processed in turn; a panic ends the task
\* with the messages sent so far.
map_stream(zs, ks, cfg, req, msgs, sent) ==
    IF msgs = <<>> THEN { [zones |-> zs, panic |-> FALSE, out |-> sent] }
    ELSE UNION { IF p.panic
                 THEN { [zones |-> p.zones, panic |-> TRUE, out |-> sent] }
                 ELSE map_stream(p.zones, ks, cfg, req, Tail(msgs), Append(sent, p.msg)) :
                    p \in postprocess(zs, ks, cfg, req, Head(msgs)) }

\* A request through the middleware and the inner service: the inner stream is
\* produced first, from the zones as they are when the request arrives.
serve(zs, ks, cfg, req) == map_stream(zs, ks, cfg, req, call(zs, req), <<>>)

----------------------------------------------------------------------------
(* State *)

NoReq == [kind |-> "none", tick |-> 0]
NoVz == [cur |-> 0]
Idle == [pc |-> "idle"]

\* A key directory left by an earlier run holds, per key, the hex text of the
\* secret that run generated.
StaleSecret == <<0, 255>>
InitFiles == [KeyFiles -> {NoFile, HexEncode(StaleSecret)}]

\* From<Arc<Config>> for Dnsr (service/mod.rs:273-284): empty tree and store.
InitDnsr ==
    /\ config \in Configs
    /\ zones = [n \in ApexNames |-> NoZone]
    /\ keystore = [k \in KeyFiles |-> NoKey]
    /\ keys = NoKeys
    /\ wpc = "init"
    /\ work = <<>>
    /\ loaded = NoKeys
    /\ last = NoReq
    /\ vz = NoVz
    /\ writer = Idle
    /\ reader = Idle

\* The configurations the request paths are exercised under.
ServeConfigs ==
    { MkKeys({"k1", "k2"}, {<<"k1", DomA, "i1">>, <<"k2", DomB, "i1">>}),
      MkKeys({"k1", "k2"}, {<<"k1", DomA, "i1">>}) }

\* First start, on an empty key directory.
Init == InitDnsr /\ config \in ServeConfigs /\ files = [k \in KeyFiles |-> NoFile]

\* A start on a key directory that earlier runs may have written.
InitRestart == InitDnsr /\ files \in InitFiles

----------------------------------------------------------------------------
(* Watcher task (service/watcher.rs:16-35, main.rs:96-104) *)

\* A reconcile whose operation list is empty returns at once with the new keys.
Begin(ops, newkeys) ==
    IF ops = <<>>
    THEN /\ wpc' = "idle"
         /\ keys' = newkeys
         /\ UNCHANGED <<work, loaded>>
    ELSE /\ wpc' = "busy"
         /\ work' = ops
         /\ loaded' = newkeys
         /\ UNCHANGED keys

\* watch_lock calls initialize_dns_zones on the startup config.
Startup ==
    /\ wpc = "init"
    /\ \E p \in IterOrders(config) : Begin(initialize_ops(p), config)
    /\ UNCHANGED <<config, zones, keystore, files, last>>
    /\ UNCHANGED conc

\* A watcher event whose file parses: handle_file_change computes the diff.
FileChangeTo(new) ==
    /\ wpc = "idle"
    /\ \E oldk \in KeyOrders(keys.ks), newk \in KeyOrders(new.ks),
          oldp \in IterOrders(keys), newp \in IterOrders(new) :
            Begin(file_change_ops(oldk, newk, oldp, newp), new)
    /\ UNCHANGED <<config, zones, keystore, files, last>>
    /\ UNCHANGED conc

FileChange == \E new \in Configs : FileChangeTo(new)

\* A watcher event whose file does not parse: `?` returns the error from
\* handle_file_change and from watch_lock, and main logs it and exits the
\* process.
\* As if a file that does not parse were read as the empty configuration.
FileChangeBad_EmptyKeys ==
    /\ wpc = "idle"
    /\ wpc' = "exit"
    /\ keys' = NoKeys
    /\ last' = [kind |-> "parse_error", tick |-> 1 - last.tick]
    /\ UNCHANGED <<config, zones, keystore, files, work, loaded>>
    /\ UNCHANGED conc

FileChangeBad ==
    /\ wpc = "idle"
    /\ wpc' = "exit"
    /\ last' = [kind |-> "parse_error", tick |-> 1 - last.tick]
    /\ UNCHANGED <<config, zones, keystore, files, keys, work, loaded>>
    /\ UNCHANGED conc

\* The reconcile's next operation is its last: the loop takes the new keys.
Advance ==
    IF Len(work) = 1
    THEN /\ wpc' = "idle"
         /\ keys' = loaded
         /\ work' = <<>>
         /\ loaded' = NoKeys
    ELSE /\ work' = Tail(work)
         /\ UNCHANGED <<wpc, keys, loaded>>

\* An operation returned Err: watch_lock returns it and main calls exit(1).
Abort ==
    /\ wpc' = "exit"
    /\ work' = <<>>
    /\ loaded' = NoKeys
    /\ UNCHANGED keys

StepAddKey ==
    /\ wpc = "busy" /\ Head(work).op = "add_key"
    /\ \E s \in Secrets :
         LET r == add_key(keystore, files, Head(work).k, s)
         IN  keystore' = r.keystore /\ files' = r.files
    /\ Advance
    /\ UNCHANGED <<config, zones, last>>
    /\ UNCHANGED conc

StepRemoveKey ==
    /\ wpc = "busy" /\ Head(work).op = "remove_key"
    /\ LET r == remove_key(keystore, files, Head(work).k)
       IN  keystore' = r.keystore /\ files' = r.files
    /\ Advance
    /\ UNCHANGED <<config, zones, last>>
    /\ UNCHANGED conc

StepInsertZone ==
    /\ wpc = "busy" /\ Head(work).op = "insert_zone"
    /\ zones' = insert_zone(zones, Head(work).d, Head(work).i)
    /\ Advance
    /\ UNCHANGED <<config, keystore, files, last>>
    /\ UNCHANGED conc

StepRemoveZone ==
    /\ wpc = "busy" /\ Head(work).op = "remove_zone"
    /\ IF remove_zone_ok(zones, Head(work).d)
       THEN zones' = remove_zone(zones, Head(work).d) /\ Advance
       ELSE zones' = zones /\ Abort
    /\ UNCHANGED <<config, keystore, files, last>>
    /\ UNCHANGED conc

Watcher ==
    \/ Startup \/ FileChange \/ FileChangeBad
    \/ StepAddKey \/ StepRemoveKey \/ StepInsertZone \/ StepRemoveZone

----------------------------------------------------------------------------
(* Request tasks (main.rs:80-94: one task per datagram or connection) *)

QNames == { Apex(DomA), Apex(DomB), DomA }

GoodTsigs == { Tsig("good", "k1"), Tsig("good", "k2") }

\* A key the store does not hold, a wrong MAC, a time outside the fudge.
BadTsigs == { Tsig("good", "kx"), Tsig("badsig", "k1"), Tsig("badtime", "k1") }

Add(ttl, rdata) == Rec("IN", "TXT", ttl, rdata)
Del(rdata) == Rec("NONE", "TXT", 0, rdata)

AuthRecords ==
    { Add(t, r) : t \in Ttls, r \in Rdatas } \cup { Del(r) : r \in Rdatas }
    \cup { Rec("IN", "A", 60, "r1"), Rec("ANY", "TXT", 0, "r1") }

AuthSeqs ==
    { <<a>> : a \in AuthRecords }
    \cup { <<Add(60, "r1"), Add(60, "r2")>>, <<Add(60, "r1"), Add(120, "r2")>>,
           <<Add(60, "r1"), Del("r1")>>, <<Add(60, "r1"), Rec("IN", "A", 60, "r1")>>,
           <<Add(60, "r1"), Rec("IN", "A", 60, Unparsable)>> }

UpdateInputs ==
    { <<Apex(DomA), Tsig("good", "k1"), a>> : a \in AuthSeqs }
    \cup { <<q, Tsig("good", "k1"), <<Add(60, "r1")>>>> : q \in {Apex(DomB), DomA} }
    \cup { <<q, Tsig("good", "k2"), <<Add(t, "r2")>>>> :
            q \in {Apex(DomA), Apex(DomB)}, t \in Ttls }
    \cup { <<Apex(DomA), t, <<Add(60, "r1")>>>> : t \in BadTsigs \cup {NoTsig} }

RECURSIVE Stored(_, _)
\* The number of TXT rdata the zones n of zs hold.
Stored(zs, ns) ==
    IF ns = {} THEN 0
    ELSE LET n == CHOOSE x \in ns : TRUE
             here == IF zs[n] # NoZone /\ zs[n]["TXT"] # NoRrset
                     THEN Len(zs[n]["TXT"].data) ELSE 0
         IN  here + Stored(zs, ns \ {n})

Bounded(zs) == Stored(zs, DOMAIN zs) <= MaxRdata

\* One request handled from arrival to the end of its response stream.
Handle(req) ==
    /\ wpc # "exit"
    /\ \E o \in serve(zones, keystore, config, req) :
        /\ Bounded(o.zones)
        /\ zones' = o.zones
        /\ last' = [kind |-> "req", req |-> req, panic |-> o.panic,
                    out |-> o.out, tick |-> 1 - last.tick]
    /\ UNCHANGED <<config, keystore, files, keys, wpc, work, loaded>>
    /\ UNCHANGED conc

\* Questions <<qname, qtype, tsig, qclass, authority>>: unsigned ones, ones
\* signed by k1 for its own zone and for the zone of k2, and one signed by k1
\* that carries a record in its authority section.
QueryInputs ==
    { <<q, t, NoTsig, "IN", <<>>>> : q \in QNames, t \in StoredTypes }
    \cup { <<Apex(DomA), "TXT", Tsig("good", "k1"), "IN", <<>>>> }
    \cup { <<q, "TXT", NoTsig, "CH", <<>>>> : q \in {Apex(DomA), DomA} }
    \cup { <<Apex(DomB), "SOA", Tsig("good", "k1"), "IN", <<>>>>,
           <<Apex(DomA), "TXT", Tsig("good", "k1"), "IN", <<Add(60, "r1")>>>> }

Query ==
    \E q \in QueryInputs :
        Handle(Request("QUERY", q[1], q[2], q[4], "UDP", q[3], q[5]))

\* AXFR questions: unsigned ones of both classes over both transports, and
\* for the zone of k1 signed ones with another ID and the RD bit set.
AxfrInputs ==
    { <<qname, qclass, transport, NoTsig, 0, FALSE>> :
        qname \in {Apex(DomA), DomA}, qclass \in {"IN", "CH"},
        transport \in {"UDP", "TCP"} }
    \cup { <<Apex(DomA), "CH", "TCP", t, 1, TRUE>> :
            t \in {NoTsig, Tsig("good", "k1"), Tsig("good", "k2"),
                   Tsig("badsig", "k1")} }

Axfr ==
    \E a \in AxfrInputs :
        Handle(WithHeader(Request("QUERY", a[1], "AXFR", a[2], a[3], a[4], <<>>),
                          a[5], a[6]))

Update ==
    \E u \in UpdateInputs :
        Handle(Request("UPDATE", u[1], "SOA", "IN", "TCP", u[2], u[3]))

----------------------------------------------------------------------------
(* Specifications *)

\* The server from its first start: startup, then requests; the configuration
\* file is left alone.
Next == Startup \/ StepAddKey \/ StepInsertZone \/ Query \/ Axfr \/ Update

Spec == Init /\ [][Next]_vars

\* The watcher alone, over any sequence of configuration changes.
NextRec == Watcher

SpecRec == InitRestart /\ [][NextRec]_vars

----------------------------------------------------------------------------
(* The watcher and the UPDATE path together *)

\* The configurations the file goes through: one zone, the same with a second
\* domain, the same with another DomainInfo, no key at all.
MixConfigs ==
    { MkKeys({"k1"}, {<<"k1", DomA, "i1">>}),
      MkKeys({"k1"}, {<<"k1", DomA, "i1">>, <<"k1", DomB, "i1">>}),
      MkKeys({"k1"}, {<<"k1", DomA, "i2">>}),
      NoKeys }

\* First start, on an empty key directory, with the first of them.
InitMix ==
    /\ config = MkKeys({"k1"}, {<<"k1", DomA, "i1">>})
    /\ zones = [n \in ApexNames |-> NoZone]
    /\ keystore = [k \in KeyFiles |-> NoKey]
    /\ files = [k \in KeyFiles |-> NoFile]
    /\ keys = NoKeys
    /\ wpc = "init"
    /\ work = <<>>
    /\ loaded = NoKeys
    /\ last = NoReq
    /\ vz = NoVz
    /\ writer = Idle
    /\ reader = Idle

FileChangeMix == \E new \in MixConfigs : FileChangeTo(new)

\* UPDATEs signed by k1 for its zone: additions under two TTLs, a deletion,
\* and a deletion aimed at the SOA.
MixAuths ==
    { <<Add(60, "r1")>>, <<Add(120, "r2")>>, <<Del("r1")>>,
      <<Rec("NONE", "SOA", 0, "i1")>> }

UpdateMix ==
    \E a \in MixAuths :
        Handle(Request("UPDATE", Apex(DomA), "SOA", "IN", "TCP",
                       Tsig("good", "k1"), a))

NextMix ==
    \/ Startup \/ FileChangeMix \/ FileChangeBad
    \/ StepAddKey \/ StepRemoveKey \/ StepInsertZone \/ StepRemoveZone
    \/ UpdateMix

SpecMix == InitMix /\ [][NextMix]_vars

----------------------------------------------------------------------------
(* The ZoneTree alone (zone.rs) *)

\* Zones a tree can hold: as built from a DomainInfo, or with TXT data since.
TreeZones ==
    { NewZone(i) : i \in Infos }
    \cup { [SOA |-> Rrset(SoaTtl, <<"i1">>), TXT |-> Rrset(60, <<"r1">>)] }

\* Names looked up: the apexes, a name below an apex, names above them.
FindNames == ApexNames \cup { <<"www">> \o Apex(DomA), DomA, <<"com">> }

InitTree ==
    /\ zones \in [ApexNames -> {NoZone} \cup TreeZones]
    /\ config = NoKeys
    /\ keystore = [k \in KeyFiles |-> NoKey]
    /\ files = [k \in KeyFiles |-> NoFile]
    /\ keys = NoKeys
    /\ wpc = "init"
    /\ work = <<>>
    /\ loaded = NoKeys
    /\ last = NoReq
    /\ vz = NoVz
    /\ writer = Idle
    /\ reader = Idle

\* ZoneTree::find_zone called with one name.
T_find_zone ==
    /\ \E qname \in FindNames :
        last' = [qname |-> qname, kind |-> "find_zone", tick |-> 1 - last.tick,
                 found |-> find_zone(zones, qname)]
    /\ UNCHANGED <<config, zones, keystore, files, keys, wpc, work, loaded>>
    /\ UNCHANGED conc

\* ZoneTree::insert_zone called with one zone.
T_insert_zone ==
    /\ \E apex \in ApexNames, i \in Infos :
        LET r == ZoneTree_insert_zone(zones, apex, NewZone(i))
        IN  /\ zones' = r.zones
            /\ last' = [apex |-> apex, zone |-> NewZone(i), res |-> r.res,
                        kind |-> "insert_zone", tick |-> 1 - last.tick]
    /\ UNCHANGED <<config, keystore, files, keys, wpc, work, loaded>>
    /\ UNCHANGED conc

\* ZoneTree::remove_zone called with one name.
T_remove_zone ==
    /\ \E d \in Domains :
        /\ zones' = IF remove_zone_ok(zones, d) THEN remove_zone(zones, d) ELSE zones
        /\ last' = [apex |-> Apex(d),
                    res |-> IF remove_zone_ok(zones, d) THEN "Ok"
                            ELSE "ZoneDoesNotExist",
                    kind |-> "remove_zone", tick |-> 1 - last.tick]
    /\ UNCHANGED <<config, keystore, files, keys, wpc, work, loaded>>
    /\ UNCHANGED conc

NextTree == T_find_zone \/ T_insert_zone \/ T_remove_zone

SpecTree == InitTree /\ [][NextTree]_vars

----------------------------------------------------------------------------
(* One zone at the grain of its versioned storage *)

\* The zone handle the handlers hold (domain::zonetree::Zone) keeps, per RRset,
\* the values written together with the version that wrote them; `cur` is the
\* version a new read() is given.
Versioned(z) ==
    [cur |-> 0, slots |-> [rt \in StoredTypes |-> << [v |-> 0, rrset |-> z[rt]] >>]]

RECURSIVE get_rrset(_, _)
\* A lookup through a read handle of version v (zone.query, zone.walk): the
\* last value written at a version not after v.
get_rrset(slot, v) ==
    IF slot = <<>> THEN NoRrset
    ELSE IF slot[Len(slot)].v <= v THEN slot[Len(slot)].rrset
    ELSE get_rrset(SubSeq(slot, 1, Len(slot) - 1), v)

\* The zone as a read handle of version v sees it.
ViewAt(z, v) == [rt \in StoredTypes |-> get_rrset(z.slots[rt], v)]

\* A write of version v: it replaces what version v wrote before.
write_at(slot, v, rrset) ==
    IF slot # <<>> /\ slot[Len(slot)].v = v
    THEN [slot EXCEPT ![Len(slot)] = [v |-> v, rrset |-> rrset]]
    ELSE Append(slot, [v |-> v, rrset |-> rrset])

\* An update that writes into the version readers are reading.
update_rrset_InPlace(z, rt, rrset) ==
    [z EXCEPT !.slots[rt] = write_at(@, z.cur, rrset)]

\* open.update_rrset (rfc2136.rs:295-302) after writer.open() (rfc2136.rs:293):
\* the write goes to the version being prepared, cur + 1.
update_rrset(z, rt, rrset) ==
    [z EXCEPT !.slots[rt] = write_at(@, z.cur + 1, rrset)]

\* writer.commit (rfc2136.rs:303): the prepared version becomes current.
commit_version(z) == [z EXCEPT !.cur = @ + 1]

ConcZone == Apex(DomA)

\* The authority sections that reach the commit.
ConcAuths == { a \in AuthSeqs : \A n \in DOMAIN a : ~record_panics(a[n]) }

\* The server after startup on the config {k1: {a.com}, k2: {}}, at rest.
InitConc ==
    LET k == add_key([x \in KeyFiles |-> NoKey], [x \in KeyFiles |-> NoFile],
                     "k1", <<171>>)
    IN  /\ config = MkKeys({"k1", "k2"}, {<<"k1", DomA, "i1">>})
        /\ keys = config
        /\ zones = insert_zone([n \in ApexNames |-> NoZone], DomA, "i1")
        /\ keystore = k.keystore
        /\ files = k.files
        /\ wpc = "idle"
        /\ work = <<>>
        /\ loaded = NoKeys
        /\ last = NoReq
        /\ vz = Versioned(NewZone("i1"))
        /\ writer = Idle
        /\ reader = Idle

\* handle_update_query up to writer.open() (rfc2136.rs:222-293): the working
\* map is built from a walk of the current version and the authority section.
W_Open ==
    /\ writer.pc = "idle"
    /\ vz.cur < MaxCommits
    /\ \E auth \in ConcAuths :
        LET r == apply_authority(walk_records(ViewAt(vz, vz.cur)), auth)
        IN  /\ \A e \in DOMAIN r.records : Len(r.records[e]) <= MaxRdata
            /\ writer' = [pc |-> "open", todo |-> r.records]
    /\ UNCHANGED <<config, zones, keystore, files, keys, wpc, work, loaded, last>>
    /\ UNCHANGED <<vz, reader>>

\* One turn of records.into_iter().for_each (rfc2136.rs:295-302).
W_UpdateRrset ==
    /\ writer.pc = "open"
    /\ \E e \in DOMAIN writer.todo :
        /\ vz' = update_rrset(vz, e[1], Rrset(e[2], writer.todo[e]))
        /\ writer' = [pc |-> "open",
                      todo |-> [x \in (DOMAIN writer.todo) \ {e} |-> writer.todo[x]]]
    /\ UNCHANGED <<config, zones, keystore, files, keys, wpc, work, loaded, last>>
    /\ UNCHANGED reader

\* writer.commit() (rfc2136.rs:303). `overlap` notes that the commit fell
\* between a reader's SOA lookup and its walk.
W_Commit ==
    /\ writer.pc = "open"
    /\ DOMAIN writer.todo = {}
    /\ LET nz == commit_version(vz)
       IN  /\ vz' = nz
           /\ zones' = [zones EXCEPT ![ConcZone] = ViewAt(nz, nz.cur)]
    /\ writer' = Idle
    /\ reader' = IF reader.pc = "walk" THEN [reader EXCEPT !.overlap = TRUE] ELSE reader
    /\ UNCHANGED <<config, keystore, files, keys, wpc, work, loaded, last>>

\* zone.read() (service/mod.rs:150): the handle is of the current version.
R_Read ==
    /\ reader.pc \in {"idle", "done"}
    /\ reader' = [pc |-> "soa", overlap |-> FALSE, marker |-> vz.cur,
                  obs |-> [SOA |-> NoRrset, TXT |-> NoRrset]]
    /\ UNCHANGED <<config, zones, keystore, files, keys, wpc, work, loaded, last>>
    /\ UNCHANGED <<vz, writer>>

\* zone.query(qname, Rtype::SOA) (service/mod.rs:151)
R_QuerySoa ==
    /\ reader.pc = "soa"
    /\ reader' = [reader EXCEPT !.pc = "walk",
                                !.obs.SOA = get_rrset(vz.slots["SOA"], reader.marker)]
    /\ UNCHANGED <<config, zones, keystore, files, keys, wpc, work, loaded, last>>
    /\ UNCHANGED <<vz, writer>>

\* zone.walk(op) (service/mod.rs:204) reaching the RRset that is not the SOA.
R_Walk ==
    /\ reader.pc = "walk"
    /\ reader' = [reader EXCEPT !.pc = "done",
                                !.obs.TXT = get_rrset(vz.slots["TXT"], reader.marker)]
    /\ UNCHANGED <<config, zones, keystore, files, keys, wpc, work, loaded, last>>
    /\ UNCHANGED <<vz, writer>>

NextConc == W_Open \/ W_UpdateRrset \/ W_Commit \/ R_Read \/ R_QuerySoa \/ R_Walk

\* An UPDATE task and a reading task on worker threads of the runtime.
SpecConc == InitConc /\ [][NextConc]_vars

----------------------------------------------------------------------------
(* Two UPDATE tasks on one zone *)

Tasks == {1, 2}

\* Authority sections of one TTL, so that an UPDATE alone has one outcome.
TwoAuths == { <<Add(60, "r1")>>, <<Add(60, "r2")>>, <<Del("r1")>> }

\* The server at rest on the config {k1: {a.com}, k2: {}}, its zone with or
\* without a TXT RRset, and two UPDATE requests signed with k1 accepted by the
\* TSIG check and about to enter handle_update_query.
InitTwo ==
    LET k == add_key([x \in KeyFiles |-> NoKey], [x \in KeyFiles |-> NoFile],
                     "k1", <<171>>)
    IN  /\ config = MkKeys({"k1", "k2"}, {<<"k1", DomA, "i1">>})
        /\ keys = config
        /\ \E z \in { NewZone("i1"),
                      [NewZone("i1") EXCEPT !["TXT"] = Rrset(60, <<"r1">>)] } :
            /\ zones = [[n \in ApexNames |-> NoZone] EXCEPT ![ConcZone] = z]
            /\ vz = Versioned(z)
        /\ keystore = k.keystore
        /\ files = k.files
        /\ wpc = "idle"
        /\ work = <<>>
        /\ loaded = NoKeys
        /\ last = NoReq
        /\ writer = [i \in Tasks |-> Idle]
        /\ reader = Idle

\* handle_update_query from the walk to the end of the authority loop
\* (rfc2136.rs:239-288): the working map of task i.
U_Walk(i) ==
    /\ writer[i].pc = "idle"
    /\ \E auth \in TwoAuths :
        LET r == apply_authority(walk_records(ViewAt(vz, vz.cur)), auth)
        IN  writer' = [writer EXCEPT ![i] = [auth |-> auth, pc |-> "walked",
                                             todo |-> r.records]]
    /\ UNCHANGED <<config, zones, keystore, files, keys, wpc, work, loaded, last>>
    /\ UNCHANGED <<vz, reader>>

\* zone.write().now_or_never().unwrap() and writer.open() (rfc2136.rs:292-293):
\* one poll of the future that takes the zone's writer. The writer is held by
\* a task from here to the end of the block that commits (rfc2136.rs:292-304);
\* a writer that is held leaves the future pending, and the unwrap of None
\* panics the task.
U_Write(i) ==
    /\ writer[i].pc = "walked"
    /\ writer' = [writer EXCEPT ![i].pc =
                    IF \E j \in Tasks : writer[j].pc = "open" THEN "panicked"
                    ELSE "open"]
    /\ UNCHANGED <<config, zones, keystore, files, keys, wpc, work, loaded, last>>
    /\ UNCHANGED <<vz, reader>>

\* One turn of records.into_iter().for_each (rfc2136.rs:295-302) in task i.
U_UpdateRrset(i) ==
    /\ writer[i].pc = "open"
    /\ \E e \in DOMAIN writer[i].todo :
        /\ vz' = update_rrset(vz, e[1], Rrset(e[2], writer[i].todo[e]))
        /\ writer' = [writer EXCEPT ![i].todo =
                        [x \in (DOMAIN writer[i].todo) \ {e} |-> writer[i].todo[x]]]
    /\ UNCHANGED <<config, zones, keystore, files, keys, wpc, work, loaded, last>>
    /\ UNCHANGED reader

\* writer.commit() and the drop of the writer (rfc2136.rs:303-304); the task
\* goes on to sign and send its response.
U_Commit(i) ==
    /\ writer[i].pc = "open"
    /\ DOMAIN writer[i].todo = {}
    /\ LET nz == commit_version(vz)
       IN  /\ vz' = nz
           /\ zones' = [zones EXCEPT ![ConcZone] = ViewAt(nz, nz.cur)]
    /\ writer' = [writer EXCEPT ![i].pc = "done"]
    /\ UNCHANGED <<config, keystore, files, keys, wpc, work, loaded, last>>
    /\ UNCHANGED reader

NextTwo ==
    \E i \in Tasks : U_Walk(i) \/ U_Write(i) \/ U_UpdateRrset(i) \/ U_Commit(i)

\* Two UPDATE tasks on worker threads of the runtime.
SpecTwo == InitTwo /\ [][NextTwo]_vars

----------------------------------------------------------------------------
(* Requests while the watcher reconciles *)

\* Configurations of one key whose domains come and go.
ObsConfigs ==
    { MkKeys({"k1"}, {<<"k1", DomA, "i1">>}),
      MkKeys({"k1"}, {<<"k1", DomA, "i1">>, <<"k1", DomB, "i1">>}),
      MkKeys({"k1"}, {<<"k1", DomB, "i1">>}) }

FileChangeObs == \E new \in ObsConfigs : FileChangeTo(new)

\* Unsigned SOA questions for the two zones.
QueryObs ==
    \E q \in {Apex(DomA), Apex(DomB)} :
        Handle(Request("QUERY", q, "SOA", "IN", "UDP", NoTsig, <<>>))

\* UPDATEs signed by k1 for the two zones.
UpdateObs ==
    \E q \in {Apex(DomA), Apex(DomB)} :
        Handle(Request("UPDATE", q, "SOA", "IN", "TCP", Tsig("good", "k1"),
                       <<Add(60, "r1")>>))

NextObs ==
    \/ Startup \/ FileChangeObs
    \/ StepAddKey \/ StepInsertZone \/ StepRemoveZone
    \/ QueryObs \/ UpdateObs

\* The watcher task and the request tasks, started on {k1: {a.com}}; a request
\* is handled between any two operations of a reconcile.
SpecObs == InitMix /\ [][NextObs]_vars

----------------------------------------------------------------------------
(* The two readers-writer locks *)

\* Two request tasks on worker threads, and the watcher task.
ReqThreads == {"req1", "req2"}
Threads == ReqThreads \cup {"watcher"}

\* Lock operations: the RwLock of the ZoneTree is Z, that of the KeyStore K.
Acq(l, m) == <<"acq", l, m>>
Rel(l, m) == <<"rel", l, m>>

\* Zones::find_zone, find_zone_read, find_zone_walk and has_zone
\* (service/mod.rs:290-326): the read guard lives to the end of the call.
find_zone_locks == << Acq("Z", "r"), Rel("Z", "r") >>

\* A has_zone whose read guard outlives the call.
has_zone_locks_Kept == << Acq("Z", "r") >>

has_zone_locks == << Acq("Z", "r"), Rel("Z", "r") >>

\* Zones::insert_zone (service/mod.rs:328-337) when the zone is absent; when
\* it is there already, the locks are those of has_zone.
insert_zone_locks == has_zone_locks \o << Acq("Z", "w"), Rel("Z", "w") >>

\* Zones::remove_zone (service/mod.rs:339-358)
remove_zone_locks == << Acq("Z", "w"), Rel("Z", "w") >>

\* keystore.write() around add_key and remove_key (service/watcher.rs:54-57,
\* 95-107).
key_change_locks == << Acq("K", "w"), Rel("K", "w") >>

\* A request whose post-processing does not reach handle_update_query: the
\* inner service looks the zone up, then the KeyStore is read-locked for the
\* TSIG check (rfc2136.rs:55, 61, 80-91).
read_request_locks == find_zone_locks \o << Acq("K", "r"), Rel("K", "r") >>

\* A request whose post-processing reaches handle_update_query: the walk and
\* the second lookup run under the KeyStore's read guard (rfc2136.rs:55-70,
\* 247-251, 291).
update_request_locks ==
    find_zone_locks \o << Acq("K", "r") >> \o find_zone_locks \o find_zone_locks
        \o << Rel("K", "r") >>

\* Every thread between two operations, no lock held.
InitLock ==
    LET k == add_key([x \in KeyFiles |-> NoKey], [x \in KeyFiles |-> NoFile],
                     "k1", <<171>>)
    IN  /\ config = MkKeys({"k1", "k2"}, {<<"k1", DomA, "i1">>})
        /\ keys = config
        /\ zones = insert_zone([n \in ApexNames |-> NoZone], DomA, "i1")
        /\ keystore = k.keystore
        /\ files = k.files
        /\ wpc = "idle"
        /\ work = <<>>
        /\ loaded = NoKeys
        /\ last = NoReq
        /\ vz = [t \in Threads |-> {}]
        /\ writer = Idle
        /\ reader = [t \in Threads |-> <<>>]

\* The operation thread t is about to run, or "none".
next_op(t) == IF reader[t] = <<>> THEN <<"none", "-", "-">> ELSE Head(reader[t])

waiting(t, l, m) == next_op(t) = Acq(l, m)

\* The threads that keep t from the lock it asks for: for a read the thread
\* that holds the write guard and, on a lock that prefers writers, the threads
\* that ask for the write guard; for a write every thread that holds a guard.
Blockers(t) ==
    LET o == next_op(t)
    IN  IF o[1] # "acq" THEN {}
        ELSE IF o[3] = "r"
        THEN { u \in Threads : <<o[2], "w">> \in vz[u] }
             \cup { u \in Threads \ {t} : waiting(u, o[2], "w") }
        ELSE { u \in Threads : \E m \in {"r", "w"} : <<o[2], m>> \in vz[u] }

\* A request arrives at an idle request task.
L_Request(t) ==
    /\ t \in ReqThreads
    /\ reader[t] = <<>>
    /\ \E p \in { read_request_locks, update_request_locks } :
        reader' = [reader EXCEPT ![t] = p]
    /\ UNCHANGED <<config, zones, keystore, files, keys, wpc, work, loaded, last>>
    /\ UNCHANGED <<vz, writer>>

\* The watcher starts the next operation of a reconcile.
L_Watcher ==
    /\ reader["watcher"] = <<>>
    /\ \E p \in { key_change_locks, insert_zone_locks, has_zone_locks,
                 remove_zone_locks } :
        reader' = [reader EXCEPT !["watcher"] = p]
    /\ UNCHANGED <<config, zones, keystore, files, keys, wpc, work, loaded, last>>
    /\ UNCHANGED <<vz, writer>>

\* RwLock::read / RwLock::write returns: no other thread holds a guard that
\* excludes the one asked for.
L_Acquire(t) ==
    /\ next_op(t)[1] = "acq"
    /\ LET l == next_op(t)[2]
           m == next_op(t)[3]
       IN  /\ \A u \in Threads : <<l, "w">> \notin vz[u]
           /\ m = "w" => \A u \in Threads : <<l, "r">> \notin vz[u]
           /\ vz' = [vz EXCEPT ![t] = @ \cup {<<l, m>>}]
    /\ reader' = [reader EXCEPT ![t] = Tail(@)]
    /\ UNCHANGED <<config, zones, keystore, files, keys, wpc, work, loaded, last>>
    /\ UNCHANGED writer

\* The guard is dropped.
L_Release(t) ==
    /\ next_op(t)[1] = "rel"
    /\ vz' = [vz EXCEPT ![t] = @ \ {<<next_op(t)[2], next_op(t)[3]>>}]
    /\ reader' = [reader EXCEPT ![t] = Tail(@)]
    /\ UNCHANGED <<config, zones, keystore, files, keys, wpc, work, loaded, last>>
    /\ UNCHANGED writer

NextLock ==
    \/ \E t \in ReqThreads : L_Request(t)
    \/ L_Watcher
    \/ \E t \in Threads : L_Acquire(t) \/ L_Release(t)

\* The request tasks and the watcher at the grain of their lock operations.
SpecLock == InitLock /\ [][NextLock]_vars

----------------------------------------------------------------------------
(* An UPDATE task in two steps while the watcher reconciles *)

\* handle_update_query from the walk to the end of the authority loop
\* (rfc2136.rs:239-288), for an UPDATE of the zone of a.com that the KeyStore
\* verifies and the scope test passes (rfc2136.rs:55-63): the working map is
\* built from the zone the tree holds now.
X_Walk ==
    /\ wpc # "exit"
    /\ writer.pc = "idle"
    /\ verify(keystore, Tsig("good", "k1")) = "ok"
    /\ validate_key_scope(config, "k1", ConcZone)
    /\ \E auth \in { <<Add(60, "r1")>>, <<Add(60, "r2")>> } :
        LET r == apply_authority(walk_records(find_zone(zones, ConcZone)), auth)
        IN  writer' = [auth |-> auth, pc |-> "walked", todo |-> r.records]
    /\ UNCHANGED <<config, zones, keystore, files, keys, wpc, work, loaded, last>>
    /\ UNCHANGED <<vz, reader>>

\* The second lookup and the commit (rfc2136.rs:291-304): the working map is
\* written into the zone the tree holds now, if it holds one.
X_Commit ==
    /\ wpc # "exit"
    /\ writer.pc = "walked"
    /\ LET z == find_zone(zones, ConcZone)
       IN  IF z = NoZone THEN zones' = zones
           ELSE \E nz \in commit(z, writer.todo) :
                    /\ zones' = [zones EXCEPT ![ConcZone] = nz]
                    /\ Bounded(zones')
    /\ writer' = Idle
    /\ UNCHANGED <<config, keystore, files, keys, wpc, work, loaded, last>>
    /\ UNCHANGED <<vz, reader>>

NextRace ==
    \/ Startup \/ FileChangeObs
    \/ StepAddKey \/ StepInsertZone \/ StepRemoveZone
    \/ X_Walk \/ X_Commit

\* The watcher task and one UPDATE task, started on {k1: {a.com}}; operations
\* of a reconcile may fall between the walk and the commit.
SpecRace == InitMix /\ [][NextRace]_vars

----------------------------------------------------------------------------
(* Claims *)

C2_BadTsigNotAuth ==
    [][ last'.tick # last.tick =>
          LET req == last'.req
              K == req.tsig.key
              valid == req.tsig.kind = "good" /\ K \in KeyFiles /\ keystore[K] # NoKey
          IN  (req.tsig.kind # "none" /\ ~valid) =>
                    /\ zones' = zones
                    /\ last'.out # <<>>
                    /\ \A n \in DOMAIN last'.out : last'.out[n].rcode = "NOTAUTH" ]_vars

\* C3: once a signed, in-scope UPDATE adding TXT rdata r with TTL t is answered
\* NOERROR, a TXT query for that name returns r with TTL t.
C3_AddVisible ==
    [][ last'.tick # last.tick =>
          LET req == last'.req
              out == last'.out
              q   == Request("QUERY", req.qname, "TXT", "IN", "TCP", NoTsig, <<>>)
          IN  ( /\ req.opcode = "UPDATE"
                /\ Len(req.authority) = 1
                /\ req.authority[1].class = "IN"
                /\ req.authority[1].rtype = "TXT"
                /\ Len(out) = 1
                /\ out[1].rcode = "NOERROR"
                /\ out[1].signed )
              => RR("TXT", req.authority[1].ttl, req.authority[1].rdata)
                    \in Range(handle_non_axfr(zones', q).answer) ]_vars

\* C5: applying an add-update to a zone that already holds its rdata at its
\* TTL (the same update applied once more) leaves the RRset as it was.
C5_Idempotent ==
    [][ last'.tick # last.tick =>
          LET req == last'.req
              out == last'.out
          IN  ( /\ req.opcode = "UPDATE"
                /\ Len(req.authority) = 1
                /\ req.authority[1].class = "IN"
                /\ req.authority[1].rtype = "TXT"
                /\ Len(out) = 1
                /\ out[1].rcode = "NOERROR"
                /\ out[1].signed
                /\ has_zone(zones, req.qname)
                /\ zones[req.qname]["TXT"] # NoRrset
                /\ zones[req.qname]["TXT"].ttl = req.authority[1].ttl
                /\ req.authority[1].rdata \in Range(zones[req.qname]["TXT"].data) )
              => zones'[req.qname]["TXT"] = zones[req.qname]["TXT"] ]_vars

\* C6: after startup and after every completed reconcile, each (KeyFile,
\* DomainName) pair of the current config has exactly one zone in the ZoneTree,
\* at the apex _acme-challenge.<DomainName>.
C6_ZoneConfig ==
    wpc = "idle" =>
        \A e \in keys.ds :
            Cardinality({ n \in DOMAIN zones : zones[n] # NoZone /\ n = Apex(e[2]) }) = 1

\* A reconcile has completed on a config that differs from the startup one.
C6_Witness ==
    /\ wpc = "idle"
    /\ keys # config
    /\ keys.ds = {<<"k1", DomA, "i1">>, <<"k1", DomB, "i1">>}
    /\ has_zone(zones, Apex(DomA)) /\ has_zone(zones, Apex(DomB))

\* C7: when a domain and its key leave the config, then once the reconcile has
\* completed the zone is gone, the key is not in the KeyStore and the key's
\* file is absent.
C7_RemovedGone ==
    [][ (wpc' = "idle" /\ keys' # keys) =>
          \A e \in keys.ds :
            (e[1] \notin keys'.ks /\ ~ \E x \in keys'.ds : x[2] = e[2]) =>
                /\ ~has_zone(zones', Apex(e[2]))
                /\ keystore'[e[1]] = NoKey
                /\ files'[e[1]] = NoFile ]_vars

\* C8: after startup and after every completed reconcile, the key files and
\* the names in the KeyStore are both the KeyFile labels of the current
\* config, KeyFiles without domains included.
C8_KeyFile ==
    wpc = "idle" =>
        /\ { k \in KeyFiles : files[k] # NoFile } = keys.ks
        /\ { k \in KeyFiles : keystore[k] # NoKey } = keys.ks

\* C9: a key that add_key loads from the file it wrote is the key it held
\* when it generated it: adding a key again over an unchanged file leaves the
\* secret in the KeyStore unchanged.
C9_RoundTrip ==
    [][ \A k \in KeyFiles :
          (keystore[k] # NoKey /\ keystore'[k] # NoKey /\ files'[k] = files[k])
            => keystore'[k] = keystore[k] ]_vars

\* C10: an AXFR over TCP with qclass IN for an existing zone is answered by a
\* stream whose first and last messages hold exactly the apex SOA RRset and
\* whose other messages hold no SOA record.
C10_AxfrBoundary ==
    [][ last'.tick # last.tick =>
          LET req == last'.req
              out == last'.out
          IN  ( /\ req.qtype = "AXFR"
                /\ req.transport = "TCP"
                /\ req.qclass = "IN"
                /\ has_zone(zones, req.qname) )
              => /\ Len(out) >= 1
                 /\ out[1].answer = Records("SOA", zones[req.qname]["SOA"])
                 /\ out[Len(out)].answer = Records("SOA", zones[req.qname]["SOA"])
                 /\ \A n \in 2..(Len(out) - 1) :
                        \A m \in DOMAIN out[n].answer : out[n].answer[m].rtype # "SOA" ]_vars

\* C4: a zone read that runs while an UPDATE commits observes the RRsets of
\* the zone all as one committed version has them, the one before the commit
\* or one after it, never a mixture.
C4_Atomic ==
    reader.pc = "done" =>
        \E v \in reader.marker..vz.cur : reader.obs = ViewAt(vz, v)

\* A read has finished over a commit that fell inside it and changed the zone.
C4_Witness ==
    /\ reader.pc = "done"
    /\ reader.overlap
    /\ reader.obs # ViewAt(vz, vz.cur)

\* C11: every message sent in answer to an AXFR request, the error frames of
\* the inner service and the error responses the TSIG middleware puts in a
\* frame's place included, has QR=1, OPCODE=0, AA=1, TC=0, RA=0, Z=AD=CD=0,
\* and the RD bit and the ID of the query.
C11_AxfrHeader ==
    [][ last'.tick # last.tick =>
          LET req == last'.req
          IN  req.qtype = "AXFR" =>
                \A n \in DOMAIN last'.out :
                    LET h == last'.out[n].hdr
                    IN  /\ h.qr /\ h.opcode = "QUERY" /\ h.aa
                        /\ ~h.tc /\ ~h.ra /\ ~h.z /\ ~h.ad /\ ~h.cd
                        /\ h.rd = req.rd
                        /\ h.id = req.id ]_vars

\* C12: an AXFR question whose class is not IN is answered by exactly one
\* NXDOMAIN message, and an AXFR question of class IN is not refused for its
\* class: for an existing zone its answer is not NXDOMAIN.
C12_AxfrClass ==
    [][ last'.tick # last.tick =>
          LET req == last'.req
              out == last'.out
          IN  (req.qtype = "AXFR" /\ req.tsig = NoTsig) =>
                /\ req.qclass # "IN" =>
                        (Len(out) = 1 /\ out[1].rcode = "NXDOMAIN")
                /\ (req.qclass = "IN" /\ has_zone(zones, req.qname)) =>
                        (Len(out) >= 1 /\ out[1].rcode # "NXDOMAIN") ]_vars

\* C13: the streamed AXFR path is taken only for qtype AXFR over a transport
\* other than UDP: an AXFR question that arrives over UDP is handled as an
\* ordinary query and gets exactly one response message.
C13_AxfrUdp ==
    [][ last'.tick # last.tick =>
          LET req == last'.req
              out == last'.out
          IN  (req.qtype = "AXFR" /\ req.transport = "UDP" /\ req.tsig = NoTsig) =>
                /\ Len(out) = 1
                /\ out[1] = handle_non_axfr(zones, req) ]_vars

\* C14: a question that is not an AXFR and whose class is not IN is answered
\* NXDOMAIN, whether or not a zone exists for its name.
C14_QueryClass ==
    [][ last'.tick # last.tick =>
          LET req == last'.req
              out == last'.out
          IN  (req.qtype # "AXFR" /\ req.opcode = "QUERY" /\ req.tsig = NoTsig
                /\ req.qclass # "IN") =>
                (Len(out) = 1 /\ out[1].rcode = "NXDOMAIN") ]_vars

\* C15: ZoneTree::find_zone finds by longest suffix: the zone found for a name
\* is the zone of the longest apex in the tree that is a suffix of the name
\* (the apex itself, or an ancestor when no zone is more specific), and nothing
\* is found only when no apex in the tree is a suffix of the name.
C15_FindLongestSuffix ==
    [][ (last'.tick # last.tick /\ last'.kind = "find_zone") =>
          LET q == last'.qname
              IsSuffix(a) == /\ Len(a) <= Len(q)
                             /\ SubSeq(q, Len(q) - Len(a) + 1, Len(q)) = a
              cands == { a \in DOMAIN zones : zones[a] # NoZone /\ IsSuffix(a) }
          IN  IF cands = {} THEN last'.found = NoZone
              ELSE \E a \in cands :
                    /\ \A b \in cands : Len(b) <= Len(a)
                    /\ last'.found = zones[a] ]_vars

\* C16: ZoneTree::insert_zone of a zone whose apex is in the tree returns
\* Err(ZoneExists) and leaves the tree as it was; of a zone whose apex is not
\* in the tree it returns Ok and the tree then holds the zone.
C16_InsertNoOverwrite ==
    [][ (last'.tick # last.tick /\ last'.kind = "insert_zone") =>
          LET apex == last'.apex
          IN  IF zones[apex] # NoZone
              THEN last'.res = "ZoneExists" /\ zones' = zones
              ELSE last'.res = "Ok" /\ zones'[apex] = last'.zone ]_vars

\* C17: a request the TSIG middleware rejects (its TSIG does not verify, or
\* the key is out of scope for the qname) does not reach the inner service:
\* the client gets the bare error response and nothing else, so exactly one
\* message, with an error rcode, an empty answer section and no TSIG, and no
\* zone changes.
C17_RejectedBare ==
    [][ last'.tick # last.tick =>
          LET req == last'.req
              out == last'.out
              v == verify(keystore, req.tsig)
              rejected == /\ v # "none"
                          /\ ~(v = "ok" /\ validate_key_scope(config, req.tsig.key,
                                                              req.qname))
          IN  rejected =>
                /\ zones' = zones
                /\ Len(out) = 1
                /\ out[1].rcode # "NOERROR"
                /\ out[1].answer = <<>>
                /\ ~out[1].signed ]_vars

\* C18: a response carries a TSIG if and only if the request carried a TSIG
\* that verified and whose key is in scope: a request without TSIG goes to the
\* inner service and its response comes back as the inner service made it,
\* unsigned; the response to a verified request is signed.
C18_SignedIff ==
    [][ last'.tick # last.tick =>
          LET req == last'.req
              out == last'.out
              v == verify(keystore, req.tsig)
              ok == v = "ok" /\ validate_key_scope(config, req.tsig.key, req.qname)
          IN  /\ \A n \in DOMAIN out : out[n].signed <=> ok
              /\ req.tsig = NoTsig => out = call(zones, req) ]_vars

\* C19: an UPDATE that is validly signed and in scope and whose qname has no
\* zone in the tree is answered NOTZONE, and no zone changes.
C19_NotZone ==
    [][ last'.tick # last.tick =>
          LET req == last'.req
              out == last'.out
              v == verify(keystore, req.tsig)
              ok == v = "ok" /\ validate_key_scope(config, req.tsig.key, req.qname)
          IN  (req.opcode = "UPDATE" /\ ok /\ ~has_zone(zones, req.qname)) =>
                /\ zones' = zones
                /\ Len(out) = 1
                /\ out[1].rcode = "NOTZONE" ]_vars

\* C20: an UPDATE (validly signed, in scope) whose authority section holds a
\* class-IN record of a type other than TXT is answered SERVFAIL and the zone
\* is left as it was, also when TXT additions come before that record.
C20_NonTxtServfail ==
    [][ last'.tick # last.tick =>
          LET req == last'.req
              out == last'.out
              v == verify(keystore, req.tsig)
              ok == v = "ok" /\ validate_key_scope(config, req.tsig.key, req.qname)
              nonTxt == \E n \in DOMAIN req.authority :
                            /\ req.authority[n].class = "IN"
                            /\ req.authority[n].rtype # "TXT"
          IN  (req.opcode = "UPDATE" /\ ok /\ nonTxt) =>
                /\ zones' = zones
                /\ Len(out) = 1
                /\ out[1].rcode = "SERVFAIL" ]_vars

C22_ParseErrorFrame ==
    [][ (last'.tick # last.tick /\ last'.kind = "parse_error") =>
            /\ zones' = zones
            /\ keystore' = keystore
            /\ files' = files
            /\ keys' = keys ]_vars

\* A file that does not parse has been read while the server held a zone, a
\* key and a remembered key set.
C22_Witness ==
    /\ last.kind = "parse_error"
    /\ keys # NoKeys
    /\ \E n \in DOMAIN zones : zones[n] # NoZone
    /\ \E k \in KeyFiles : keystore[k] # NoKey /\ files[k] # NoFile

\* C23: one failed reconcile does not end the reconciler loop or the process:
\* the watcher goes on to take later events.
C23_FailureKeepsLoop ==
    [][ wpc # "exit" => wpc' # "exit" ]_vars

\* C24: a reconcile leaves untouched the zone of a domain that is in the old
\* and in the new configuration with the same DomainInfo: no step of the
\* reconcile changes that zone, so the records in it, TXT records added by
\* UPDATE included, are after the reconcile what they were before it.
C24_RetainedUntouched ==
    [][ (wpc = "busy" /\ last' = last) =>
          \A e \in keys.ds :
            (\E f \in loaded.ds : f[2] = e[2] /\ f[3] = e[3]) =>
                zones'[Apex(e[2])] = zones[Apex(e[2])] ]_vars

\* C25: within a (KeyFile, DomainName) pair the reconcile adds the key before
\* it inserts the zone and removes the zone before it evicts the key, so in
\* every state, the states inside a reconcile included, a zone that is in the
\* tree for a pair has the key of a pair of its domain in the KeyStore.
C25_ZoneHasKey ==
    wpc # "exit" =>
        \A d \in Domains :
            has_zone(zones, Apex(d)) =>
                \E e \in keys.ds \cup loaded.ds :
                    e[2] = d /\ keystore[e[1]] # NoKey

\* C26: every request that reaches the pipeline, whatever its opcode, class,
\* authority records and TSIG outcome, ends with a response that carries an
\* rcode: the task that handles it neither aborts nor ends without a message.
C26_AlwaysAnswered ==
    [][ last'.tick # last.tick =>
            /\ ~last'.panic
            /\ last'.out # <<>> ]_vars

\* C27 (invariant Z1): in every reachable state, after any sequence of
\* startup, reconciles and UPDATEs, every zone in the ZoneTree holds an SOA
\* RRset at its apex.
C27_ZoneHasSoa ==
    \A n \in DOMAIN zones :
        zones[n] # NoZone =>
            /\ zones[n]["SOA"] # NoRrset
            /\ zones[n]["SOA"].data # <<>>

\* A reconcile has replaced the startup configuration, and an UPDATE has since
\* been answered and has left TXT data in the zone.
C27_Witness ==
    /\ wpc = "idle"
    /\ keys # config
    /\ last.kind = "req"
    /\ last.out # <<>>
    /\ last.out[1].signed
    /\ zones[Apex(DomA)] # NoZone
    /\ zones[Apex(DomA)]["TXT"] # NoRrset
    /\ zones[Apex(DomA)]["TXT"].data # <<>>

\* C28: a query, not an AXFR, for a name for which the ZoneTree holds no zone
\* (no apex in the tree is the name or an ancestor of it) is answered by one
\* message with rcode NXDOMAIN and an empty answer section, and the ZoneTree
\* and the KeyStore are left as they were.
C28_NoZoneNxdomain ==
    [][ last'.tick # last.tick =>
          LET req == last'.req
              out == last'.out
              q == req.qname
              covered == \E a \in DOMAIN zones :
                            /\ zones[a] # NoZone
                            /\ Len(a) <= Len(q)
                            /\ SubSeq(q, Len(q) - Len(a) + 1, Len(q)) = a
          IN  ( /\ req.opcode = "QUERY" /\ req.qtype # "AXFR"
                /\ req.tsig = NoTsig /\ ~covered ) =>
                /\ Len(out) = 1
                /\ out[1].rcode = "NXDOMAIN"
                /\ out[1].answer = <<>>
                /\ zones' = zones
                /\ keystore' = keystore ]_vars

\* A TXT query for a.com has been answered NXDOMAIN while the tree holds the
\* zone _acme-challenge.a.com, with TXT data, and none for a.com.
C28_Witness ==
    /\ last.kind = "req"
    /\ last.req.opcode = "QUERY"
    /\ last.req.qname = DomA
    /\ last.req.qtype = "TXT"
    /\ last.req.tsig = NoTsig
    /\ last.out = << to_message(last.req, Bare("NXDOMAIN")) >>
    /\ zones[Apex(DomA)] # NoZone
    /\ zones[Apex(DomA)]["TXT"] # NoRrset

\* C29: the UPDATE processor runs only for requests of opcode UPDATE: a
\* request of any other opcode, also one that is TSIG-signed and in scope and
\* carries records in its authority section, changes no zone.
C29_UpdateOpcodeOnly ==
    [][ last'.tick # last.tick =>
          (last'.req.opcode # "UPDATE" => zones' = zones) ]_vars

\* C30: the scope of a key is tested for UPDATEs only: a query, not an AXFR,
\* with a TSIG that verifies is answered from the zone and signed, also when
\* its qname is not a domain configured under the signing key; it is not
\* answered REFUSED.
C30_ScopeUpdateOnly ==
    [][ last'.tick # last.tick =>
          LET req == last'.req
              out == last'.out
          IN  ( /\ req.opcode = "QUERY" /\ req.qtype # "AXFR"
                /\ req.authority = <<>>
                /\ verify(keystore, req.tsig) = "ok" ) =>
                /\ Len(out) = 1
                /\ out[1] = [handle_non_axfr(zones, req) EXCEPT !.signed = TRUE] ]_vars

\* C31: in an AXFR stream that transfers a zone, between the opening and the
\* closing SOA message there is exactly one message per RRset of the zone
\* that is not the SOA, holding all the (owner, ttl, rdata) tuples of that
\* RRset; a zone that holds only the SOA is transferred in exactly two
\* messages.
C31_AxfrBody ==
    [][ last'.tick # last.tick =>
          LET req == last'.req
              out == last'.out
              q == req.qname
          IN  ( /\ req.qtype = "AXFR" /\ req.tsig = NoTsig
                /\ has_zone(zones, q)
                /\ out # <<>> /\ out[1].rcode = "NOERROR" ) =>
                LET z == zones[q]
                    others == { rt \in StoredTypes \ {"SOA"} : z[rt] # NoRrset }
                IN  /\ Len(out) = 2 + Cardinality(others)
                    /\ \A rt \in others :
                        Cardinality({ n \in 2..(Len(out) - 1) :
                                        out[n].answer = Records(rt, z[rt]) }) = 1
                    /\ out[1].answer = Records("SOA", z["SOA"])
                    /\ out[Len(out)].answer = Records("SOA", z["SOA"]) ]_vars

\* A zone whose TXT RRset holds two rdata has been transferred in three
\* messages, the second of which holds both.
C31_Witness ==
    /\ last.kind = "req"
    /\ last.req.qtype = "AXFR"
    /\ last.req.tsig = NoTsig
    /\ Len(last.out) = 3
    /\ last.out[1].rcode = "NOERROR"
    /\ Len(last.out[2].answer) = 2
    /\ last.out[2].answer[1].rtype = "TXT"

\* The zones an UPDATE with authority section a, running alone, leaves of z.
UpdateAlone(z, a) == commit(z, apply_authority(walk_records(z), a).records)

\* C32: when two in-scope signed UPDATEs for one zone have run concurrently,
\* both have completed with a response (neither has aborted because the other
\* held the zone's writer) and the zone is what applying them one after the
\* other, in one of the two orders, leaves.
C32_WritersSerialize ==
    (\A i \in Tasks : writer[i].pc \in {"done", "panicked"}) =>
        /\ \A i \in Tasks : writer[i].pc = "done"
        /\ \E i, j \in Tasks :
            /\ i # j
            /\ \E z1 \in UpdateAlone(ViewAt(vz, 0), writer[i].auth) :
                ViewAt(vz, vz.cur) \in UpdateAlone(z1, writer[j].auth)

\* C33: a query handled while a reconcile is under way, for the zone of a
\* domain that both the old and the new configuration hold, is never answered
\* NXDOMAIN.
C33_RetainedVisible ==
    [][ ( /\ last'.tick # last.tick
          /\ last'.kind = "req"
          /\ wpc = "busy" ) =>
          LET req == last'.req
          IN  ( /\ req.opcode = "QUERY" /\ req.qtype = "SOA"
                /\ \E d \in Domains :
                    /\ req.qname = Apex(d)
                    /\ \E o \in keys.ds : o[2] = d
                    /\ \E n \in loaded.ds : n[2] = d ) =>
                last'.out[1].rcode # "NXDOMAIN" ]_vars

\* C34: an UPDATE that is answered with a signed response leaves every zone
\* other than the one its question names as it was, leaves in that zone every
\* RRset whose rtype no record of the authority section names (the apex SOA,
\* rdata and TTL, among them) as it was, and leaves the KeyStore as it was.
C34_UpdateFrame ==
    [][ last'.tick # last.tick =>
          LET req == last'.req
              z == find_zone(zones, req.qname)
              nz == find_zone(zones', req.qname)
          IN  ( /\ req.opcode = "UPDATE"
                /\ ~last'.panic
                /\ last'.out # <<>>
                /\ last'.out[1].signed ) =>
                /\ \A n \in DOMAIN zones : n # req.qname => zones'[n] = zones[n]
                /\ DOMAIN zones' = DOMAIN zones
                /\ (z = NoZone) = (nz = NoZone)
                /\ ( z # NoZone =>
                       \A rt \in StoredTypes :
                            (\A k \in DOMAIN req.authority : req.authority[k].rtype # rt)
                                => nz[rt] = z[rt] )
                /\ keystore' = keystore ]_vars

\* An UPDATE that added a TXT record to one zone has been answered while the
\* tree holds another zone as well.
C34_Witness ==
    /\ last.kind = "req"
    /\ last.req.opcode = "UPDATE"
    /\ last.req.qname = Apex(DomA)
    /\ last.req.authority = <<Add(120, "r2")>>
    /\ ~last.panic
    /\ last.out # <<>>
    /\ last.out[1].signed
    /\ zones[Apex(DomA)] # NoZone
    /\ zones[Apex(DomA)]["TXT"] = Rrset(120, <<"r2">>)
    /\ zones[Apex(DomB)] # NoZone

\* C35: a request that carries no TSIG record changes no zone, whatever its
\* opcode and its authority section; a request that changes a zone carries a
\* TSIG that the KeyStore verifies and the scope test passes.
C35_UnsignedNoChange ==
    [][ (last'.tick # last.tick /\ last'.kind = "req") =>
          LET req == last'.req
          IN  /\ req.tsig = NoTsig => zones' = zones
              /\ zones' # zones =>
                    /\ verify(keystore, req.tsig) = "ok"
                    /\ validate_key_scope(config, req.tsig.key, req.qname) ]_vars

\* An unsigned UPDATE whose authority section adds a record to a zone the tree
\* holds has been answered.
C35_Witness ==
    /\ last.kind = "req"
    /\ last.req.opcode = "UPDATE"
    /\ last.req.tsig = NoTsig
    /\ last.req.authority = <<Add(60, "r1")>>
    /\ has_zone(zones, last.req.qname)
    /\ last.out # <<>>
    /\ ~last.out[1].signed

\* C36: the scope of a key is the one the configuration of the last completed
\* reconcile gives it: between reconciles an UPDATE signed with key K for
\* _acme-challenge.D is not answered REFUSED when that configuration holds D
\* under K, and is answered REFUSED when it holds K without D.
C36_ScopeFollowsReload ==
    [][ ( /\ last'.tick # last.tick
          /\ last'.kind = "req"
          /\ wpc = "idle" ) =>
          LET req == last'.req
          IN  ( /\ req.opcode = "UPDATE"
                /\ verify(keystore, req.tsig) = "ok"
                /\ req.tsig.key \in keys.ks
                /\ ~last'.panic /\ last'.out # <<>> ) =>
                \A d \in Domains :
                    req.qname = Apex(d) =>
                        ( (\E e \in keys.ds : e[1] = req.tsig.key /\ e[2] = d)
                            <=> last'.out[1].rcode # "REFUSED" ) ]_vars

\* C37: once a signed, in-scope UPDATE adding TXT rdata r with TTL t to a zone
\* whose TXT RRset holds the rdata S at TTL t0 is answered, the TXT RRset of
\* the zone holds every element of S and r, whatever t and t0 are, and the
\* zone the UPDATE leaves is the only one it can leave (it does not depend on
\* the order in which the working map is iterated).
C37_AddKeepsAll ==
    [][ last'.tick # last.tick =>
          LET req == last'.req
              out == last'.out
              z == find_zone(zones, req.qname)
              nz == find_zone(zones', req.qname)
          IN  ( /\ req.opcode = "UPDATE"
                /\ Len(req.authority) = 1
                /\ req.authority[1].class = "IN"
                /\ req.authority[1].rtype = "TXT"
                /\ ~last'.panic
                /\ Len(out) = 1
                /\ out[1].signed
                /\ z # NoZone
                /\ z["TXT"] # NoRrset )
              => /\ nz # NoZone
                 /\ nz["TXT"] # NoRrset
                 /\ Range(z["TXT"].data) \cup {req.authority[1].rdata}
                        \subseteq Range(nz["TXT"].data)
                 /\ Cardinality({ o.zones : o \in serve(zones, keystore, config, req) }) = 1
        ]_vars

\* C38: under every interleaving of request tasks and the reconciler no set of
\* threads waits on one another for ever: no thread waits for the KeyStore
\* lock holding the ZoneTree lock while another waits for the ZoneTree lock
\* holding the KeyStore lock, and no thread asks for a lock it holds.
C38_DeadlockFree ==
    /\ ~ \E S \in (SUBSET Threads) \ {{}} : \A t \in S : Blockers(t) \cap S # {}
    /\ ~ \E t, u \in Threads :
            /\ t # u
            /\ \E m \in {"r", "w"} : <<"Z", m>> \in vz[t]
            /\ next_op(t)[1] = "acq" /\ next_op(t)[2] = "K"
            /\ \E m \in {"r", "w"} : <<"K", m>> \in vz[u]
            /\ next_op(u)[1] = "acq" /\ next_op(u)[2] = "Z"
    /\ \A t \in Threads :
            next_op(t)[1] = "acq" =>
                \A m \in {"r", "w"} : <<next_op(t)[2], m>> \notin vz[t]

\* A request task holds the KeyStore's read guard and asks for the ZoneTree's
\* while the watcher, in insert_zone, waits for the ZoneTree's write guard that
\* the other request task's read guard keeps from it.
C38_Witness ==
    /\ vz["req1"] = {<<"K", "r">>}
    /\ waiting("req1", "Z", "r")
    /\ vz["req2"] = {<<"Z", "r">>}
    /\ waiting("watcher", "Z", "w")
    /\ Len(reader["watcher"]) = 2

\* C39: the commit of an UPDATE that raced with a reconcile writes into the
\* zone nothing that was read from an instance the reconciler has since
\* removed or replaced: the TXT rdata of the zone after the commit are rdata
\* the zone held just before it or rdata the UPDATE adds, and its SOA is the
\* one it held; and the commit does not put a zone back into the ZoneTree
\* that the reconciler has removed.
C39_CommitIntoSnapshot ==
    [][ (writer.pc = "walked" /\ writer'.pc = "idle") =>
          LET z == find_zone(zones, ConcZone)
              nz == find_zone(zones', ConcZone)
              held == IF z["TXT"] = NoRrset THEN {} ELSE Range(z["TXT"].data)
              added == { writer.auth[k].rdata : k \in DOMAIN writer.auth }
          IN  IF z = NoZone THEN nz = NoZone
              ELSE /\ nz # NoZone
                   /\ nz["SOA"] = z["SOA"]
                   /\ nz["TXT"] # NoRrset =>
                        Range(nz["TXT"].data) \subseteq held \cup added ]_vars

\* C40: a reconcile, whatever the old and the new configuration are (the same
\* DomainName under two KeyFiles in either of them, or taken away from one or
\* both, included), does not end in an error, and when it completes the
\* ZoneTree holds a zone for exactly the domains of the new configuration,
\* each built from a DomainInfo the new configuration gives that domain.
C40_ReconcileCompletes ==
    [][ wpc = "busy" =>
          /\ wpc' # "exit"
          /\ wpc' = "idle" =>
                /\ { n \in DOMAIN zones' : zones'[n] # NoZone }
                        = { Apex(e[2]) : e \in keys'.ds }
                /\ \A e \in keys'.ds :
                        \E x \in keys'.ds :
                            x[2] = e[2] /\ zones'[Apex(e[2])] = NewZone(x[3]) ]_vars

=============================================================================
